---- MODULE Spec2Model ----
(***************************************************************************)
(* Model of the numerical core of mcmcpainter: src/src/dot_painter_cpp.cpp *)
(* (dots) and src/src/mcmc_painter_cpp.cpp (lines).                        *)
(*                                                                         *)
(* The exported functions hold no state between calls, so a state of the   *)
(* model is one call: the function called, its arguments and what it       *)
(* returned.  Init draws the arguments, one action per exported function   *)
(* applies it.                                                             *)
(*                                                                         *)
(* Numbers.  The code works on doubles; the model works on fixed-point     *)
(* integers.  Lengths and coordinates of the renderers are counted in      *)
(* quarter pixels (PX units per pixel), so that pixel centres x - 0.5 and  *)
(* squared distances are exact.  Intensities, alpha and coverage are       *)
(* counted in thousandths (ONE represents 1.0).  Every comparison the code *)
(* makes on squared distances is made exactly; only the value of a square  *)
(* root and of a product of two thousandths is rounded.                    *)
(***************************************************************************)
EXTENDS Integers, Sequences, FiniteSets, TLC

VARIABLES call, args, ret

vars == <<call, args, ret>>

\* ---------------------------------------------------------------- bounds
\* canvas width and height in pixels
W == 3
H == 2
\* longest list of dots or lines handed to a renderer
MaxPrims == 2

\* ------------------------------------------------------------ fixed point
\* 1.0 in thousandths
ONE == 1000
\* one pixel in quarter pixels
PX == 4

HALFPX == PX \div 2

Min(a, b) == IF a < b THEN a ELSE b
Max(a, b) == IF a > b THEN a ELSE b

\* std::floor and std::ceil of a length, as a whole number of pixels
Floor(v) == v \div PX
Ceil(v) == -((-v) \div PX)

\* a product of two thousandths, rounded to the nearest thousandth
Mul(a, b) == (a * b + ONE \div 2) \div ONE

\* floor(n * ONE * ONE / d) for 0 <= n, 0 < d, without leaving 32 bits
Ratio2(n, d) ==
  LET q1 == (n * ONE) \div d
      r1 == (n * ONE) % d
  IN  q1 * ONE + (r1 * ONE) \div d

RECURSIVE IsqrtIter(_, _, _)
IsqrtIter(n, lo, hi) ==
  IF lo >= hi THEN lo
  ELSE LET mid == (lo + hi + 1) \div 2
       IN  IF mid * mid <= n THEN IsqrtIter(n, mid, hi)
           ELSE IsqrtIter(n, lo, mid - 1)

\* std::sqrt on a non-negative integer, rounded down
Isqrt(n) == IsqrtIter(n, 0, Min(n, 46340))

\* ---------------------------------------------------------------- helpers
\* dot_painter_cpp.cpp: clamp01
clamp01(v) == IF v < 0 THEN 0 ELSE IF v > ONE THEN ONE ELSE v

\* mcmc_painter_cpp.cpp: clamp01 (the upper branch returns v)
clamp01_mcmc(v) == IF v < 0 THEN 0 ELSE IF v > ONE THEN v ELSE v

\* Linear index of (row y, column x, channel c), y and x 1-based
idx3(y, x, c, h, w) ==
  LET y0 == y - 1
      x0 == x - 1
  IN  y0 + x0 * h + c * h * w

\* length of a canvas buffer: NumericVector of H*W*3 samples, 0-based
CanvasLen == H * W * 3
Indices == 0 .. (CanvasLen - 1)
Channels == 0 .. 2

Flat(v) == [i \in Indices |-> v]
White == Flat(ONE)
Black == Flat(0)

\* the pixels of a rectangle in the order of the loops
\* for (y = ymin; y <= ymax; ++y) for (x = xmin; x <= xmax; ++x)
PixelSeq(xmin, xmax, ymin, ymax) ==
  IF xmin > xmax \/ ymin > ymax THEN << >>
  ELSE LET nx == xmax - xmin + 1
           ny == ymax - ymin + 1
       IN  [k \in 1 .. (nx * ny) |->
              <<xmin + ((k - 1) % nx), ymin + ((k - 1) \div nx)>>]

\* a rectangle of pixels, bounds inclusive: the List of xmin, xmax, ymin, ymax
Rect(xmin, xmax, ymin, ymax) ==
  [xmin |-> xmin, xmax |-> xmax, ymin |-> ymin, ymax |-> ymax]

\* centre of pixel p along one axis: (double)p - 0.5
Centre(p) == p * PX - HALFPX

\* ------------------------------------------------------------------- dots
\* coverage of pixel (x0, y0) by a dot.  Where d2 > r2 the code takes
\* `continue` before it sets a coverage: the pixel is left alone, as it is
\* for a coverage of 0, which stands for that case here.
dot_coverage(x, y, radius, x0, y0) ==
  LET dx == Centre(x0) - x
      dy == Centre(y0) - y
      d2 == dx * dx + dy * dy
      r2 == radius * radius
      inner == (radius - PX) * (radius - PX)
  IN  IF d2 > r2 THEN 0
      ELSE IF d2 > inner
           THEN LET cv == ONE - Isqrt(Ratio2(d2, r2))
                IN  IF cv < 0 THEN 0 ELSE cv
           ELSE ONE

\* one pass of the body of the pixel loops of the three dot renderers
dot_pixel(canvas, dot, x0, y0) ==
  LET y_idx == y0 - 1
      x_idx == x0 - 1
      coverage == dot_coverage(dot.x, dot.y, dot.radius, x0, y0)
      a == clamp01(Mul(coverage, dot.alpha))
      i0 == idx3(y_idx, x_idx, 0, H, W)
      i1 == idx3(y_idx, x_idx, 1, H, W)
      i2 == idx3(y_idx, x_idx, 2, H, W)
  IN  IF y_idx < 0 \/ y_idx >= H \/ x_idx < 0 \/ x_idx >= W THEN canvas
      ELSE IF coverage <= 0 \/ dot.alpha <= 0 THEN canvas
      ELSE IF i0 < 0 \/ i0 >= CanvasLen \/ i1 < 0 \/ i1 >= CanvasLen
              \/ i2 < 0 \/ i2 >= CanvasLen THEN canvas
      ELSE [canvas EXCEPT
              ![i0] = canvas[i0] + Mul(a, dot.col[1] - canvas[i0]),
              ![i1] = canvas[i1] + Mul(a, dot.col[2] - canvas[i1]),
              ![i2] = canvas[i2] + Mul(a, dot.col[3] - canvas[i2])]

RECURSIVE DrawDot(_, _, _, _)
DrawDot(canvas, dot, pix, k) ==
  IF k > Len(pix) THEN canvas
  ELSE DrawDot(dot_pixel(canvas, dot, pix[k][1], pix[k][2]), dot, pix, k + 1)

composite_dot_bbox_cpp(canvas, dot, xmin, xmax, ymin, ymax) ==
  DrawDot(canvas, dot, PixelSeq(xmin, xmax, ymin, ymax), 1)

\* the `Start with white canvas in bbox` loop of re_render_bbox_from_dots_cpp
dots_reset_pixel(canvas, x, y) ==
  LET y_idx == y - 1
      x_idx == x - 1
      i0 == idx3(y_idx, x_idx, 0, H, W)
      i1 == idx3(y_idx, x_idx, 1, H, W)
      i2 == idx3(y_idx, x_idx, 2, H, W)
  IN  IF y_idx < 0 \/ y_idx >= H \/ x_idx < 0 \/ x_idx >= W THEN canvas
      ELSE IF i0 < 0 \/ i0 >= CanvasLen \/ i1 < 0 \/ i1 >= CanvasLen
              \/ i2 < 0 \/ i2 >= CanvasLen THEN canvas
      ELSE [canvas EXCEPT ![i0] = ONE, ![i1] = ONE, ![i2] = ONE]

RECURSIVE DotsReset(_, _, _)
DotsReset(canvas, pix, k) ==
  IF k > Len(pix) THEN canvas
  ELSE DotsReset(dots_reset_pixel(canvas, pix[k][1], pix[k][2]), pix, k + 1)

\* one dot of the `Render all dots that intersect the bbox` loop
re_render_dot(canvas, dot, xmin, xmax, ymin, ymax) ==
  IF dot.x + dot.radius < xmin * PX \/ dot.x - dot.radius > xmax * PX
     \/ dot.y + dot.radius < ymin * PX \/ dot.y - dot.radius > ymax * PX
  THEN canvas
  ELSE LET dot_xmin == Max(xmin, Floor(dot.x - dot.radius))
           dot_xmax == Min(xmax, Ceil(dot.x + dot.radius))
           dot_ymin == Max(ymin, Floor(dot.y - dot.radius))
           dot_ymax == Min(ymax, Ceil(dot.y + dot.radius))
       IN  DrawDot(canvas, dot, PixelSeq(dot_xmin, dot_xmax, dot_ymin, dot_ymax), 1)

RECURSIVE ReRenderDots(_, _, _, _, _, _, _)
ReRenderDots(canvas, dots, i, xmin, xmax, ymin, ymax) ==
  IF i > Len(dots) THEN canvas
  ELSE ReRenderDots(re_render_dot(canvas, dots[i], xmin, xmax, ymin, ymax),
                    dots, i + 1, xmin, xmax, ymin, ymax)

re_render_bbox_from_dots_cpp(canvas, dots, xmin, xmax, ymin, ymax) ==
  ReRenderDots(DotsReset(canvas, PixelSeq(xmin, xmax, ymin, ymax), 1),
               dots, 1, xmin, xmax, ymin, ymax)

\* one dot of the `Render all dots` loop of render_full_canvas_from_dots_cpp
full_render_dot(canvas, dot) ==
  LET xmin == Max(1, Floor(dot.x - dot.radius))
      xmax == Min(W, Ceil(dot.x + dot.radius))
      ymin == Max(1, Floor(dot.y - dot.radius))
      ymax == Min(H, Ceil(dot.y + dot.radius))
  IN  DrawDot(canvas, dot, PixelSeq(xmin, xmax, ymin, ymax), 1)

RECURSIVE FullRenderDots(_, _, _)
FullRenderDots(canvas, dots, i) ==
  IF i > Len(dots) THEN canvas
  ELSE FullRenderDots(full_render_dot(canvas, dots[i]), dots, i + 1)

render_full_canvas_from_dots_cpp(canvas, dots) ==
  FullRenderDots([i \in DOMAIN canvas |-> ONE], dots, 1)

\* ------------------------------------------------------------------ lines
\* thousandths of a pixel of a length given in quarter pixels
Milli(v) == (v * ONE) \div PX

\* mutant: the ramp measured from the axis instead of from the inner radius
line_ramp_from_axis(d, inr, outr) == ONE - (d * ONE) \div (outr - inr)

\* cov = 1.0 - (std::sqrt(d2) - inr) / (outr - inr), all in thousandths
line_ramp(d, inr, outr) == ONE - ((d - inr) * ONE) \div (outr - inr)

\* Coverage of pixel (x, y) by the capsule around the segment (x1,y1)-(x2,y2).
\* Widths are even numbers of quarter pixels, so that r = 0.5*w is exact.
\* t = num/v2 is kept as the fraction tn/td.  The 1e-12 added to v2 is below
\* every length of the model: it decides only the zero-length segment, where
\* num = 0 and t = 0/1e-12 = 0.  dxn = td*dx and dyn = td*dy, so d2n = td*td*d2;
\* d2n is a multiple of td (td*cross^2 between the ends, td*td*|p-end|^2 at
\* an end), and d2q = td*d2 keeps the comparisons exact within 32 bits.
\* sqrt(d2)/outr is sqrt(d2/ou2) with the sign of outr, which is negative for
\* a width below -1.
line_coverage(x1, y1, x2, y2, w, x, y) ==
  LET vx == x2 - x1
      vy == y2 - y1
      v2 == vx * vx + vy * vy
      r == w \div 2
      inr == r - HALFPX
      outr == r + HALFPX
      in2 == IF inr > 0 THEN inr * inr ELSE 0
      ou2 == outr * outr
      px == Centre(x)
      py == Centre(y)
      num == (px - x1) * vx + (py - y1) * vy
      td == IF v2 = 0 THEN 1 ELSE v2
      tn == IF num < 0 THEN 0 ELSE IF num > td THEN td ELSE num
      dxn == (px - x1) * td - tn * vx
      dyn == (py - y1) * td - tn * vy
      d2q == (dxn * dxn + dyn * dyn) \div td
      ratio == Isqrt(Ratio2(d2q, ou2 * td))
  IN  IF inr <= 0
      THEN IF d2q < ou2 * td
           THEN LET cv == IF outr > 0 THEN ONE - ratio ELSE ONE + ratio
                IN  IF cv < 0 THEN 0 ELSE cv
           ELSE 0
      ELSE IF d2q <= in2 * td THEN ONE
           ELSE IF d2q >= ou2 * td THEN 0
           ELSE line_ramp(Isqrt(Ratio2(d2q, PX * PX * td)), Milli(inr), Milli(outr))

\* one pass of the body of the pixel loops of composite_line_bbox_cpp
composite_line_pixel(canvas, line, x, y) ==
  LET y0 == y - 1
      x0 == x - 1
      cov == line_coverage(line.x1, line.y1, line.x2, line.y2, line.w, x, y)
      a == clamp01_mcmc(Mul(cov, line.alpha))
      i0 == idx3(y0, x0, 0, H, W)
      i1 == idx3(y0, x0, 1, H, W)
      i2 == idx3(y0, x0, 2, H, W)
  IN  IF y0 < 0 \/ y0 >= H \/ x0 < 0 \/ x0 >= W THEN canvas
      ELSE IF cov <= 0 \/ line.alpha <= 0 THEN canvas
      ELSE IF i0 < 0 \/ i0 >= CanvasLen \/ i1 < 0 \/ i1 >= CanvasLen
              \/ i2 < 0 \/ i2 >= CanvasLen THEN canvas
      ELSE [canvas EXCEPT
              ![i0] = Mul(a, line.col[1]) + Mul(ONE - a, canvas[i0]),
              ![i1] = Mul(a, line.col[2]) + Mul(ONE - a, canvas[i1]),
              ![i2] = Mul(a, line.col[3]) + Mul(ONE - a, canvas[i2])]

RECURSIVE CompositeLine(_, _, _, _)
CompositeLine(canvas, line, pix, k) ==
  IF k > Len(pix) THEN canvas
  ELSE CompositeLine(composite_line_pixel(canvas, line, pix[k][1], pix[k][2]),
                     line, pix, k + 1)

composite_line_bbox_cpp(canvas, line, xmin, xmax, ymin, ymax) ==
  CompositeLine(canvas, line, PixelSeq(xmin, xmax, ymin, ymax), 1)

\* one pass of the body of the pixel loops of re_render_bbox_from_lines_cpp
\* and render_full_canvas_cpp; both index with the 1-based x and y and check
\* no bound, and both are handed pixels of the canvas only
line_pixel(canvas, line, x, y) ==
  LET cov == line_coverage(line.x1, line.y1, line.x2, line.y2, line.w, x, y)
      a == clamp01_mcmc(Mul(cov, line.alpha))
      i0 == idx3(y, x, 0, H, W)
      i1 == idx3(y, x, 1, H, W)
      i2 == idx3(y, x, 2, H, W)
  IN  IF cov > 0 /\ line.alpha > 0
      THEN [canvas EXCEPT
              ![i0] = Mul(a, line.col[1]) + Mul(ONE - a, canvas[i0]),
              ![i1] = Mul(a, line.col[2]) + Mul(ONE - a, canvas[i1]),
              ![i2] = Mul(a, line.col[3]) + Mul(ONE - a, canvas[i2])]
      ELSE canvas

RECURSIVE DrawLine(_, _, _, _)
DrawLine(canvas, line, pix, k) ==
  IF k > Len(pix) THEN canvas
  ELSE DrawLine(line_pixel(canvas, line, pix[k][1], pix[k][2]), line, pix, k + 1)

\* the `Clear bbox region to white background` loop
lines_reset_pixel(canvas, x, y) ==
  [canvas EXCEPT ![idx3(y, x, 0, H, W)] = ONE,
                 ![idx3(y, x, 1, H, W)] = ONE,
                 ![idx3(y, x, 2, H, W)] = ONE]

RECURSIVE LinesReset(_, _, _)
LinesReset(canvas, pix, k) ==
  IF k > Len(pix) THEN canvas
  ELSE LinesReset(lines_reset_pixel(canvas, pix[k][1], pix[k][2]), pix, k + 1)

\* mutant: the test made on the line's own half width, without the pad
line_intersects_bbox_nopad(line, xmin, xmax, ymin, ymax) ==
  LET r == line.w \div 2
      line_xmin == Min(line.x1, line.x2) - r
      line_xmax == Max(line.x1, line.x2) + r
      line_ymin == Min(line.y1, line.y2) - r
      line_ymax == Max(line.y1, line.y2) + r
  IN  ~(line_xmax < xmin * PX \/ line_xmin > xmax * PX
        \/ line_ymax < ymin * PX \/ line_ymin > ymax * PX)

\* the `Check if line intersects bbox` test, r = w/2 + 2 pixels of pad
line_intersects_bbox(line, xmin, xmax, ymin, ymax) ==
  LET r == line.w \div 2 + 2 * PX
      line_xmin == Min(line.x1, line.x2) - r
      line_xmax == Max(line.x1, line.x2) + r
      line_ymin == Min(line.y1, line.y2) - r
      line_ymax == Max(line.y1, line.y2) + r
  IN  ~(line_xmax < xmin * PX \/ line_xmin > xmax * PX
        \/ line_ymax < ymin * PX \/ line_ymin > ymax * PX)

\* one line of the `Draw lines that intersect the bbox` loop
re_render_line(canvas, line, xmin, xmax, ymin, ymax) ==
  IF line_intersects_bbox(line, xmin, xmax, ymin, ymax)
  THEN LET r == line.w \div 2 + 2 * PX
           draw_xmin == Max(xmin, Floor(Min(line.x1, line.x2) - r))
           draw_xmax == Min(xmax, Ceil(Max(line.x1, line.x2) + r))
           draw_ymin == Max(ymin, Floor(Min(line.y1, line.y2) - r))
           draw_ymax == Min(ymax, Ceil(Max(line.y1, line.y2) + r))
       IN  DrawLine(canvas, line,
                    PixelSeq(draw_xmin, draw_xmax, draw_ymin, draw_ymax), 1)
  ELSE canvas

RECURSIVE ReRenderLines(_, _, _, _, _, _, _)
ReRenderLines(canvas, lines, i, xmin, xmax, ymin, ymax) ==
  IF i > Len(lines) THEN canvas
  ELSE ReRenderLines(re_render_line(canvas, lines[i], xmin, xmax, ymin, ymax),
                     lines, i + 1, xmin, xmax, ymin, ymax)

re_render_bbox_from_lines_cpp(base_canvas, lines, xmin, xmax, ymin, ymax) ==
  ReRenderLines(LinesReset(base_canvas, PixelSeq(xmin, xmax, ymin, ymax), 1),
                lines, 1, xmin, xmax, ymin, ymax)

\* one line of the loop of render_full_canvas_cpp
full_render_line(canvas, line) ==
  LET r == line.w \div 2 + 2 * PX
      xmin == Max(1, Floor(Min(line.x1, line.x2) - r))
      xmax == Min(W, Ceil(Max(line.x1, line.x2) + r))
      ymin == Max(1, Floor(Min(line.y1, line.y2) - r))
      ymax == Min(H, Ceil(Max(line.y1, line.y2) + r))
  IN  DrawLine(canvas, line, PixelSeq(xmin, xmax, ymin, ymax), 1)

RECURSIVE FullRenderLines(_, _, _)
FullRenderLines(canvas, lines, i) ==
  IF i > Len(lines) THEN canvas
  ELSE FullRenderLines(full_render_line(canvas, lines[i]), lines, i + 1)

render_full_canvas_cpp(lines) == FullRenderLines(White, lines, 1)

\* ----------------------------------------------------------- bounding box
\* mutant: the right and lower bounds rounded down instead of up
dot_bbox_cpp_floor(x, y, radius, cw, ch) ==
  Rect(Max(1, Floor(x - radius)), Min(cw, Floor(x + radius)),
       Max(1, Floor(y - radius)), Min(ch, Floor(y + radius)))

\* mutant: the left and upper bounds not clamped at 1
dot_bbox_cpp_noclamp(x, y, radius, cw, ch) ==
  Rect(Floor(x - radius), Min(cw, Ceil(x + radius)),
       Floor(y - radius), Min(ch, Ceil(y + radius)))

dot_bbox_cpp(x, y, radius, cw, ch) ==
  Rect(Max(1, Floor(x - radius)), Min(cw, Ceil(x + radius)),
       Max(1, Floor(y - radius)), Min(ch, Ceil(y + radius)))

\* pad is a whole number of pixels
line_bbox_cpp(x1, y1, x2, y2, w, cw, ch, pad) ==
  LET r == w \div 2 + pad * PX
  IN  Rect(Max(1, Floor(Min(x1, x2) - r)), Min(cw, Ceil(Max(x1, x2) + r)),
           Max(1, Floor(Min(y1, y2) - r)), Min(ch, Ceil(Max(y1, y2) + r)))

\* -------------------------------------------------------------------- sse
\* Squared differences are counted in millionths and summed exactly.  A call
\* returns the sum, the buffer indices it read, and whether it faulted.

\* one channel of one pixel of sse_bbox_dots_cpp
sse_dots_channel(acc, target, canvas, y_idx, x_idx, c) ==
  LET idx == idx3(y_idx, x_idx, c, H, W)
  IN  IF idx < 0 \/ idx >= CanvasLen \/ idx >= CanvasLen THEN acc
      ELSE [acc EXCEPT
              !.sse = @ + (target[idx] - canvas[idx]) * (target[idx] - canvas[idx]),
              !.reads = @ \cup {idx}]

\* one pass of the body of the pixel loops of sse_bbox_dots_cpp
sse_dots_pixel(acc, target, canvas, x, y) ==
  LET y_idx == y - 1
      x_idx == x - 1
  IN  IF y_idx < 0 \/ y_idx >= H \/ x_idx < 0 \/ x_idx >= W THEN acc
      ELSE sse_dots_channel(
             sse_dots_channel(
               sse_dots_channel(acc, target, canvas, y_idx, x_idx, 0),
               target, canvas, y_idx, x_idx, 1),
             target, canvas, y_idx, x_idx, 2)

RECURSIVE SseDots(_, _, _, _, _)
SseDots(acc, target, canvas, pix, k) ==
  IF k > Len(pix) THEN acc
  ELSE SseDots(sse_dots_pixel(acc, target, canvas, pix[k][1], pix[k][2]),
               target, canvas, pix, k + 1)

sse_bbox_dots_cpp(target, canvas, xmin, xmax, ymin, ymax) ==
  SseDots([sse |-> 0, reads |-> {}, fault |-> FALSE], target, canvas,
          PixelSeq(xmin, xmax, ymin, ymax), 1)

\* target[i] - canvas[i] as sse_bbox_cpp reads it: it checks no bound, and a
\* read outside the buffers is undefined: it yields whatever lies there
\* (gt for target, gc for canvas)
sse_diff(target, canvas, i, gt, gc) ==
  IF i \in Indices THEN target[i] - canvas[i] ELSE gt - gc

\* mutant: the sum overwritten by each pixel instead of added to
sse_pixel_overwrite(acc, target, canvas, x, y, gt, gc) ==
  LET i0 == idx3(y, x, 0, H, W)
      i1 == idx3(y, x, 1, H, W)
      i2 == idx3(y, x, 2, H, W)
      d0 == sse_diff(target, canvas, i0, gt, gc)
      d1 == sse_diff(target, canvas, i1, gt, gc)
      d2 == sse_diff(target, canvas, i2, gt, gc)
  IN  [acc EXCEPT !.sse = d0 * d0 + d1 * d1 + d2 * d2,
                  !.reads = @ \cup {i0, i1, i2}]

\* one pass of the body of the pixel loops of sse_bbox_cpp
sse_pixel(acc, target, canvas, x, y, gt, gc) ==
  LET i0 == idx3(y, x, 0, H, W)
      i1 == idx3(y, x, 1, H, W)
      i2 == idx3(y, x, 2, H, W)
      d0 == sse_diff(target, canvas, i0, gt, gc)
      d1 == sse_diff(target, canvas, i1, gt, gc)
      d2 == sse_diff(target, canvas, i2, gt, gc)
  IN  [acc EXCEPT !.sse = @ + d0 * d0 + d1 * d1 + d2 * d2,
                  !.reads = @ \cup {i0, i1, i2}]

RECURSIVE Sse(_, _, _, _, _, _, _)
Sse(acc, target, canvas, pix, k, gt, gc) ==
  IF k > Len(pix) THEN acc
  ELSE Sse(sse_pixel(acc, target, canvas, pix[k][1], pix[k][2], gt, gc),
           target, canvas, pix, k + 1, gt, gc)

sse_bbox_cpp(target, canvas, xmin, xmax, ymin, ymax, gt, gc) ==
  Sse([sse |-> 0, reads |-> {}, fault |-> FALSE], target, canvas,
      PixelSeq(xmin, xmax, ymin, ymax), 1, gt, gc)

\* --------------------------------------------------------------- proposals
\* The samplers and the jitter only add, scale and clamp: every field of a
\* primitive, positions and lengths included, is counted in thousandths here
\* (ONE is one pixel).  The draws of R's generator are arguments of the call.

Abs(v) == IF v < 0 THEN -v ELSE v

\* R::runif(a, b) for a draw u of unif_rand, which lies strictly between 0
\* and 1: a when a = b, and a + (b - a) * u otherwise
runif(a, b, u) == IF a = b THEN a ELSE a + ((b - a) * u) \div ONE

\* mutant: the position returned as drawn
clamp_pos_none(v, n) == v

\* std::max(1.0, std::min((double)n, v)): a position clamped into [1, n]
clamp_pos(v, n) == Max(ONE, Min(n * ONE, v))

\* mutant: the lower clamp of alpha left out
clamp_alpha_upper_only(v) == Min(ONE - 1, v)

\* std::min(0.999, std::max(0.001, v))
clamp_alpha(v) == Min(ONE - 1, Max(1, v))

\* std::min(1.0, std::max(0.0, v))
clamp_col(v) == Min(ONE, Max(0, v))

sample_dot_prior_cpp(cw, ch, rng) ==
  [x |-> runif(ONE, cw * ONE, rng.ux),
   y |-> runif(ONE, ch * ONE, rng.uy),
   radius |-> Abs(rng.nr) + ONE,
   alpha |-> rng.beta,
   col |-> <<runif(0, ONE, rng.uc[1]), runif(0, ONE, rng.uc[2]),
             runif(0, ONE, rng.uc[3])>>]

jitter_dot_cpp(dot, cw, ch, rng) ==
  [x |-> clamp_pos(dot.x + rng.nx, cw),
   y |-> clamp_pos(dot.y + rng.ny, ch),
   radius |-> Max(ONE, dot.radius + rng.nr),
   alpha |-> clamp_alpha(dot.alpha + rng.na),
   col |-> [i \in 1 .. 3 |-> clamp_col(dot.col[i] + rng.nc[i])]]

\* rng.dir is <<cos(ang), sin(ang)>> for the angle drawn
sample_line_prior_cpp(cw, ch, rng) ==
  LET x1 == runif(ONE, cw * ONE, rng.ux)
      y1 == runif(ONE, ch * ONE, rng.uy)
      len == Abs(rng.nlen) + 5 * ONE
  IN  [x1 |-> x1, y1 |-> y1,
       x2 |-> clamp_pos(x1 + Mul(len, rng.dir[1]), cw),
       y2 |-> clamp_pos(y1 + Mul(len, rng.dir[2]), ch),
       w |-> Abs(rng.nw) + ONE,
       alpha |-> rng.beta,
       col |-> <<runif(0, ONE, rng.uc[1]), runif(0, ONE, rng.uc[2]),
                 runif(0, ONE, rng.uc[3])>>]

jitter_line_cpp(line, cw, ch, rng) ==
  [x1 |-> clamp_pos(line.x1 + rng.nx1, cw),
   y1 |-> clamp_pos(line.y1 + rng.ny1, ch),
   x2 |-> clamp_pos(line.x2 + rng.nx2, cw),
   y2 |-> clamp_pos(line.y2 + rng.ny2, ch),
   w |-> Max(ONE \div 5, line.w + rng.nw),
   alpha |-> clamp_alpha(line.alpha + rng.na),
   col |-> [i \in 1 .. 3 |-> clamp_col(line.col[i] + rng.nc[i])]]

\* residual magnitude of pixel i of the flattened pixel list, 0-based
residual_mag(target, canvas, i) ==
  LET e0 == target[i] - canvas[i]
      e1 == target[i + H * W] - canvas[i + H * W]
      e2 == target[i + 2 * H * W] - canvas[i + 2 * H * W]
  IN  Isqrt(e0 * e0 + e1 * e1 + e2 * e2)

PixelIdx == 0 .. (H * W - 1)

RECURSIVE MaxMag(_, _, _)
MaxMag(mag, i, max_mag) ==
  IF i >= H * W THEN max_mag
  ELSE MaxMag(mag, i + 1, IF mag[i] > max_mag THEN mag[i] ELSE max_mag)

RECURSIVE TotalWeight(_, _)
TotalWeight(mag, i) ==
  IF i >= H * W THEN 0 ELSE mag[i] + TotalWeight(mag, i + 1)

\* mutant: the loop without its break, which keeps the last index reached
RECURSIVE seed_loop_nobreak(_, _, _, _, _)
seed_loop_nobreak(mag, r, i, cumsum, idx) ==
  IF i >= H * W THEN idx
  ELSE seed_loop_nobreak(mag, r, i + 1, cumsum + mag[i],
                         IF cumsum + mag[i] >= r THEN i ELSE idx)

\* the loop that accumulates the weights until the sum reaches r
RECURSIVE seed_loop(_, _, _, _, _)
seed_loop(mag, r, i, cumsum, idx) ==
  IF i >= H * W THEN idx
  ELSE IF cumsum + mag[i] >= r THEN i
  ELSE seed_loop(mag, r, i + 1, cumsum + mag[i], idx)

\* The seed of the two birth samplers: x0 and y0, and for the record the
\* pixel index sampled (-1 when the position is drawn uniformly).  1e-6 is a
\* thousandth of the unit of the magnitudes.
birth_seed(target, canvas, rng) ==
  LET mag_sq == [i \in PixelIdx |-> residual_mag(target, canvas, i)]
      max_mag == MaxMag(mag_sq, 0, 0)
  IN  IF max_mag * ONE < 1
      THEN [x0 |-> runif(ONE, W * ONE, rng.ux),
            y0 |-> runif(ONE, H * ONE, rng.uy), idx |-> -1]
      ELSE LET norm == [i \in PixelIdx |-> (mag_sq[i] * ONE) \div max_mag]
               total_weight == TotalWeight(norm, 0)
               r == runif(0, total_weight, rng.ur)
               idx == seed_loop(norm, r, 0, 0, 0)
           IN  [x0 |-> ((idx \div H) + 1) * ONE,
                y0 |-> ((idx % H) + 1) * ONE, idx |-> idx]

\* the colour of the dot born at (x0, y0)
dot_birth_col(target, x0, y0, rng) ==
  LET x_idx == (x0 \div ONE) - 1
      y_idx == (y0 \div ONE) - 1
      pick(c) == LET target_idx == idx3(y_idx, x_idx, c, H, W)
                 IN  IF target_idx >= 0 /\ target_idx < CanvasLen
                     THEN target[target_idx]
                     ELSE runif(0, ONE, rng.uc[c + 1])
  IN  IF x_idx >= 0 /\ x_idx < W /\ y_idx >= 0 /\ y_idx < H
      THEN <<pick(0), pick(1), pick(2)>>
      ELSE <<runif(0, ONE, rng.uc[1]), rng.ncol, runif(0, ONE, rng.uc[3])>>

sample_dot_birth_datadriven_cpp(target, canvas, rng) ==
  LET seed == birth_seed(target, canvas, rng)
  IN  [x |-> seed.x0, y |-> seed.y0,
       radius |-> Abs(rng.nr) + ONE,
       alpha |-> rng.beta,
       col |-> dot_birth_col(target, seed.x0, seed.y0, rng),
       idx |-> seed.idx]

\* std::round of the fraction n/d of pixels, n >= 0, to a whole pixel
RoundPx(n, d) == (2 * n + d) \div (2 * d)

\* the sum over the probes i .. nprobe-1 of channel c of target along the line
RECURSIVE ProbeSum(_, _, _, _, _, _, _)
ProbeSum(target, x1, y1, x2, y2, c, i) ==
  IF i >= 20 THEN 0
  ELSE LET px == Min(W, Max(1, RoundPx(19 * x1 + i * (x2 - x1), 19 * ONE)))
           py == Min(H, Max(1, RoundPx(19 * y1 + i * (y2 - y1), 19 * ONE)))
       IN  target[idx3(py, px, c, H, W)]
             + ProbeSum(target, x1, y1, x2, y2, c, i + 1)

sample_line_birth_datadriven_cpp(target, canvas, rng) ==
  LET seed == birth_seed(target, canvas, rng)
      len == Abs(rng.nlen) + 8 * ONE
      x1 == clamp_pos(seed.x0 - Mul(len \div 2, rng.dir[1]), W)
      y1 == clamp_pos(seed.y0 - Mul(len \div 2, rng.dir[2]), H)
      x2 == clamp_pos(seed.x0 + Mul(len \div 2, rng.dir[1]), W)
      y2 == clamp_pos(seed.y0 + Mul(len \div 2, rng.dir[2]), H)
  IN  [x1 |-> x1, y1 |-> y1, x2 |-> x2, y2 |-> y2,
       w |-> Abs(rng.nw) + ONE,
       alpha |-> rng.beta,
       col |-> [c \in 1 .. 3 |->
                  (ProbeSum(target, x1, y1, x2, y2, c - 1, 0) + 10) \div 20],
       idx |-> seed.idx]

\* ----------------------------------------------------------------- inputs
\* the rectangles lying inside the canvas
RectsInside ==
  {Rect(a, b, c, d) : a \in 1 .. W, b \in 1 .. W, c \in 1 .. H, d \in 1 .. H}
  \ {r \in [xmin : 1 .. W, xmax : 1 .. W, ymin : 1 .. H, ymax : 1 .. H] :
       r.xmin > r.xmax \/ r.ymin > r.ymax}

PixelsOf(r) == {<<x, y>> \in (1 .. W) \X (1 .. H) :
                  r.xmin <= x /\ x <= r.xmax /\ r.ymin <= y /\ y <= r.ymax}

Dot(x, y, radius, alpha, col) ==
  [x |-> x, y |-> y, radius |-> radius, alpha |-> alpha, col |-> col]

\* dots on and around the canvas: hard and soft, opaque and translucent
DotSet ==
  { Dot(6, 6, 4, ONE, <<0, 0, 0>>),
    Dot(7, 2, 4, 800, <<ONE, 0, 0>>),
    Dot(10, 4, 8, 500, <<0, ONE, 500>>),
    Dot(2, 6, 6, 999, <<250, 250, ONE>>) }

SeqsUpTo(S, n) == UNION {[1 .. k -> S] : k \in 0 .. n}

Line(x1, y1, x2, y2, w, alpha, col) ==
  [x1 |-> x1, y1 |-> y1, x2 |-> x2, y2 |-> y2, w |-> w, alpha |-> alpha,
   col |-> col]

\* lines on and around the canvas: thin (w <= 1 pixel) and thick, slanted,
\* of zero length, and one 3.5 pixels from the left edge
LineSet ==
  { Line(2, 4, 10, 4, 2, ONE, <<0, 0, 0>>),
    Line(2, 2, 10, 6, 8, 500, <<ONE, 0, 0>>),
    Line(6, 6, 6, 6, 4, 800, <<0, ONE, 0>>),
    Line(14, 0, 14, 8, 2, 700, <<500, 500, 0>>) }

\* geometry of single dots: centres left of, on and right of the canvas,
\* radii from 0 to three pixels
GeomDots ==
  {Dot(x, y, radius, 800, <<0, 0, 0>>) :
     x \in {-6, 0, 2, 5, 7, 10, 12, 24}, y \in {-6, 2, 3, 6, 9, 24},
     radius \in {-8, 0, 1, 2, 3, 4, 6, 8, 12}}

\* geometry of single lines: every pair of end points of a coarse grid over
\* the canvas and every width from minus two to two pixels, and short lines
\* that lie wholly outside the canvas
GeomLines ==
  {Line(x1, y1, x2, y2, w, 800, <<0, 0, 0>>) :
     x1 \in {0, 2, 7, 12}, y1 \in {0, 3, 6}, x2 \in {0, 2, 7, 12},
     y2 \in {0, 3, 6}, w \in {-8, -4, 0, 2, 4, 6, 8}}
  \cup
  {Line(x1, y1, x1 + 2, y1, w, 800, <<0, 0, 0>>) :
     x1 \in {-14, 24}, y1 \in {-14, 2, 24}, w \in {0, 4}}

\* every pixel of the canvas
Canvas == (1 .. W) \X (1 .. H)

BaseCanvases == {White, Black}

\* a canvas whose samples differ from one another
Grad == [i \in Indices |-> (i * 137) % (ONE + 1)]

\* buf with the samples at the indices of D moved by half the range
Moved(buf, D) ==
  [i \in Indices |->
     IF i \in D THEN (IF buf[i] >= 500 THEN buf[i] - 500 ELSE buf[i] + 500)
     ELSE buf[i]]

\* most samples in which target and canvas differ
MaxDiffs == 2

\* the subsets of S of at most n elements
RECURSIVE SubsetsUpTo(_, _)
SubsetsUpTo(S, n) ==
  IF n = 0 THEN {{}}
  ELSE LET P == SubsetsUpTo(S, n - 1)
       IN  P \cup {D \cup {x} : D \in P, x \in S}

\* the rectangles a caller can hand over, inside the canvas or not
RectsAny ==
  {r \in [xmin : 0 .. (W + 1), xmax : 0 .. (W + 1),
          ymin : 0 .. (H + 1), ymax : 0 .. (H + 1)] :
     r.xmin <= r.xmax /\ r.ymin <= r.ymax}

\* what a read outside a buffer can yield
Garbage == {0, ONE}

\* draws of unif_rand, strictly between 0 and 1
UnifDraws == {1, 500, 999}
UnifTriples == {<<1, 500, 999>>, <<999, 1, 500>>}

\* draws of R::rnorm: far below, near and far above the mean
NormDraws == {-9000, 300, 9000}
NormTriples == {<<-9000, 300, 9000>>, <<9000, -9000, 300>>, <<300, 9000, -9000>>}

\* draws of R::rbeta, strictly between 0 and 1
BetaDraws == {1, 999}

\* <<cos(ang), sin(ang)>> for the angles drawn
Dirs == {<<ONE, 0>>, <<0, -ONE>>, <<-800, 600>>, <<600, 800>>}

\* the sizes of canvas a sampler or a jitter is called with
Sizes == (1 .. W) \X (1 .. H)

\* dots and lines at the two ends of their valid domains on a canvas of
\* cw by ch pixels
ValidDots(cw, ch) ==
  { [x |-> ONE, y |-> ONE, radius |-> ONE, alpha |-> 1, col |-> <<0, 0, 0>>],
    [x |-> cw * ONE, y |-> ch * ONE, radius |-> 5 * ONE, alpha |-> ONE - 1,
     col |-> <<ONE, ONE, ONE>>] }

ValidLines(cw, ch) ==
  { [x1 |-> ONE, y1 |-> ch * ONE, x2 |-> ONE, y2 |-> ONE, w |-> ONE \div 5,
     alpha |-> 1, col |-> <<0, 0, 0>>],
    [x1 |-> cw * ONE, y1 |-> ONE, x2 |-> cw * ONE, y2 |-> ch * ONE,
     w |-> 5 * ONE, alpha |-> ONE - 1, col |-> <<ONE, 500, ONE>>] }

\* the samples in which target and canvas differ when the pixels of P have a
\* residual: one, two or three channels of a pixel, by its index
ResidualAt(P) ==
  UNION {{i + c * H * W : c \in 0 .. (i % 3)} : i \in P}

\* target and canvas of the birth samplers: equal, or different in up to
\* MaxDiffs pixels
BirthBuffers ==
  {[target |-> Moved(Grad, ResidualAt(P)), canvas |-> Grad] :
     P \in SubsetsUpTo(0 .. (H * W - 1), MaxDiffs)}

HasResidual(b) == b.target # b.canvas

NoRet == [none |-> TRUE]

\* ------------------------------------------------------------ dots: calls
InitDots ==
  /\ call = "none"
  /\ args \in [canvas : BaseCanvases, dots : SeqsUpTo(DotSet, MaxPrims),
               bbox : RectsInside]
  /\ ret = NoRet

ReRenderBboxFromDots ==
  /\ call = "none"
  /\ call' = "re_render_bbox_from_dots_cpp"
  /\ ret' = re_render_bbox_from_dots_cpp(args.canvas, args.dots,
              args.bbox.xmin, args.bbox.xmax, args.bbox.ymin, args.bbox.ymax)
  /\ UNCHANGED args

RenderFullCanvasFromDots ==
  /\ call = "none"
  /\ call' = "render_full_canvas_from_dots_cpp"
  /\ ret' = render_full_canvas_from_dots_cpp(args.canvas, args.dots)
  /\ UNCHANGED args

NextDots == ReRenderBboxFromDots \/ RenderFullCanvasFromDots

SpecDots == InitDots /\ [][NextDots]_vars

\* C1: inside the re-rendered rectangle R, the canvas returned by
\* re_render_bbox_from_dots_cpp equals, at every pixel and channel, the
\* canvas render_full_canvas_from_dots_cpp returns for the same dot list.
C1_DotsIncrementalEqualsFull ==
  call = "re_render_bbox_from_dots_cpp" =>
    \A p \in PixelsOf(args.bbox) : \A c \in Channels :
      ret[idx3(p[2], p[1], c, H, W)]
        = render_full_canvas_from_dots_cpp(args.canvas, args.dots)
            [idx3(p[2], p[1], c, H, W)]

\* ----------------------------------------------------------- lines: calls
InitLines ==
  /\ call = "none"
  /\ args \in [canvas : BaseCanvases, lines : SeqsUpTo(LineSet, MaxPrims),
               bbox : RectsInside]
  /\ ret = NoRet

ReRenderBboxFromLines ==
  /\ call = "none"
  /\ call' = "re_render_bbox_from_lines_cpp"
  /\ ret' = re_render_bbox_from_lines_cpp(args.canvas, args.lines,
              args.bbox.xmin, args.bbox.xmax, args.bbox.ymin, args.bbox.ymax)
  /\ UNCHANGED args

RenderFullCanvas ==
  /\ call = "none"
  /\ call' = "render_full_canvas_cpp"
  /\ ret' = render_full_canvas_cpp(args.lines)
  /\ UNCHANGED args

NextLines == ReRenderBboxFromLines \/ RenderFullCanvas

SpecLines == InitLines /\ [][NextLines]_vars

\* C2: inside the re-rendered rectangle R, the canvas returned by
\* re_render_bbox_from_lines_cpp equals, at every pixel and channel, the
\* canvas render_full_canvas_cpp returns for the same line list.
C2_LinesIncrementalEqualsFull ==
  call = "re_render_bbox_from_lines_cpp" =>
    \A p \in PixelsOf(args.bbox) : \A c \in Channels :
      ret[idx3(p[2], p[1], c, H, W)]
        = render_full_canvas_cpp(args.lines)[idx3(p[2], p[1], c, H, W)]

\* a re-render of a proper sub-rectangle of a black base canvas, with two
\* lines of which one is skipped by the intersection test and the other
\* leaves a pixel of R partly covered
C2_Witness ==
  /\ call = "re_render_bbox_from_lines_cpp"
  /\ args.canvas = Black
  /\ Len(args.lines) = 2
  /\ PixelsOf(args.bbox) # (1 .. W) \X (1 .. H)
  /\ \E i \in 1 .. 2 : ~line_intersects_bbox(args.lines[i], args.bbox.xmin,
                          args.bbox.xmax, args.bbox.ymin, args.bbox.ymax)
  /\ \E p \in PixelsOf(args.bbox) : \E c \in Channels :
       /\ ret[idx3(p[2], p[1], c, H, W)] > 0
       /\ ret[idx3(p[2], p[1], c, H, W)] < ONE

\* ------------------------------------------------------------- sse: calls
InitSse ==
  /\ call = "none"
  /\ \E D \in SubsetsUpTo(Indices, MaxDiffs) : \E r \in RectsInside :
       args = [target |-> Moved(Grad, D), canvas |-> Grad, bbox |-> r]
  /\ ret = NoRet

\* the same calls with rectangles that may leave the canvas
InitSseAny ==
  /\ call = "none"
  /\ \E D \in SubsetsUpTo(Indices, 1) : \E r \in RectsAny :
       args = [target |-> Moved(Grad, D), canvas |-> Grad, bbox |-> r]
  /\ ret = NoRet

SseBboxDots ==
  /\ call = "none"
  /\ call' = "sse_bbox_dots_cpp"
  /\ ret' = sse_bbox_dots_cpp(args.target, args.canvas,
              args.bbox.xmin, args.bbox.xmax, args.bbox.ymin, args.bbox.ymax)
  /\ UNCHANGED args

SseBbox ==
  /\ call = "none"
  /\ call' = "sse_bbox_cpp"
  /\ \E gt \in Garbage, gc \in Garbage, f \in BOOLEAN :
       LET r == sse_bbox_cpp(args.target, args.canvas, args.bbox.xmin,
                  args.bbox.xmax, args.bbox.ymin, args.bbox.ymax, gt, gc)
       IN  ret' = [r EXCEPT !.fault = f /\ ~(r.reads \subseteq Indices)]
  /\ UNCHANGED args

NextSse == SseBboxDots \/ SseBbox

SpecSse == InitSse /\ [][NextSse]_vars

SpecSseAny == InitSseAny /\ [][NextSse]_vars

IsSseCall == call \in {"sse_bbox_dots_cpp", "sse_bbox_cpp"}

\* target and canvas agree at every sample of every pixel of rectangle r
EqualOn(r) ==
  \A p \in PixelsOf(r) : \A c \in Channels :
    args.target[idx3(p[2], p[1], c, H, W)] = args.canvas[idx3(p[2], p[1], c, H, W)]

\* C3: over a rectangle inside the canvas, sse_bbox_dots_cpp and sse_bbox_cpp
\* return 0 when target and canvas are equal at every pixel and channel of
\* the rectangle, whatever they hold outside it, and a strictly positive
\* value when they differ at some pixel and channel of the rectangle.
C3_SseZeroIffEqual ==
  IsSseCall =>
    /\ EqualOn(args.bbox) => ret.sse = 0
    /\ ~EqualOn(args.bbox) => ret.sse > 0

\* the squared differences of the samples of the pixels of S
RECURSIVE SumSq(_)
SumSq(S) ==
  IF S = {} THEN 0
  ELSE LET p == CHOOSE q \in S : TRUE
           i0 == idx3(p[2], p[1], 0, H, W)
           i1 == idx3(p[2], p[1], 1, H, W)
           i2 == idx3(p[2], p[1], 2, H, W)
           d0 == args.target[i0] - args.canvas[i0]
           d1 == args.target[i1] - args.canvas[i1]
           d2 == args.target[i2] - args.canvas[i2]
       IN  d0 * d0 + d1 * d1 + d2 * d2 + SumSq(S \ {p})

\* C4: handed a rectangle that leaves the canvas, sse_bbox_dots_cpp and
\* sse_bbox_cpp skip the coordinates outside it: they read no index outside
\* 0 .. H*W*3-1 and no sample of a pixel outside the rectangle, and return
\* the sum of squared differences over the pixels of the rectangle that lie
\* inside the canvas.
C4_SseSkipsOutside ==
  IsSseCall =>
    /\ ret.reads \subseteq Indices
    /\ ~ret.fault
    /\ ret.reads \subseteq
         {idx3(p[2], p[1], c, H, W) : p \in PixelsOf(args.bbox), c \in Channels}
    /\ ret.sse = SumSq(PixelsOf(args.bbox))

\* -------------------------------------------- coverage and bounding boxes
InitGeom ==
  /\ call = "none"
  /\ \/ \E d \in GeomDots : args = [kind |-> "dot", prim |-> d]
     \/ \E l \in GeomLines : args = [kind |-> "line", prim |-> l]
  /\ ret = NoRet

DotBbox ==
  /\ call = "none"
  /\ args.kind = "dot"
  /\ call' = "dot_bbox_cpp"
  /\ ret' = dot_bbox_cpp(args.prim.x, args.prim.y, args.prim.radius, W, H)
  /\ UNCHANGED args

\* line_bbox_cpp called with its default pad of 2
LineBbox ==
  /\ call = "none"
  /\ args.kind = "line"
  /\ call' = "line_bbox_cpp"
  /\ ret' = line_bbox_cpp(args.prim.x1, args.prim.y1, args.prim.x2,
                          args.prim.y2, args.prim.w, W, H, 2)
  /\ UNCHANGED args

\* composite_dot_bbox_cpp over the whole of a white canvas; cov is the
\* coverage its loop computed at each pixel
CompositeDotBbox ==
  /\ call = "none"
  /\ args.kind = "dot"
  /\ call' = "composite_dot_bbox_cpp"
  /\ ret' = [canvas |-> composite_dot_bbox_cpp(White, args.prim, 1, W, 1, H),
             cov |-> [p \in Canvas |->
                        dot_coverage(args.prim.x, args.prim.y,
                                     args.prim.radius, p[1], p[2])]]
  /\ UNCHANGED args

\* composite_line_bbox_cpp over the whole of a white canvas
CompositeLineBbox ==
  /\ call = "none"
  /\ args.kind = "line"
  /\ call' = "composite_line_bbox_cpp"
  /\ ret' = [canvas |-> composite_line_bbox_cpp(White, args.prim, 1, W, 1, H),
             cov |-> [p \in Canvas |->
                        line_coverage(args.prim.x1, args.prim.y1, args.prim.x2,
                                      args.prim.y2, args.prim.w, p[1], p[2])]]
  /\ UNCHANGED args

NextGeom == DotBbox \/ LineBbox \/ CompositeDotBbox \/ CompositeLineBbox

SpecGeom == InitGeom /\ [][NextGeom]_vars

IsComposite == call \in {"composite_dot_bbox_cpp", "composite_line_bbox_cpp"}
IsBbox == call \in {"dot_bbox_cpp", "line_bbox_cpp"}

\* C5 as stated: for every dot of any radius and every line of any width, a
\* zero-length one included, the coverage the renderers compute at a pixel
\* of the canvas lies in [0,1].
C5_CoverageInUnitInterval ==
  IsComposite => \A p \in Canvas : 0 <= ret.cov[p] /\ ret.cov[p] <= ONE

\* C5 as amended: the coverage lies in [0,1] for every dot of any radius and
\* for every line of width -1 or more, which every width of the valid
\* domain is.
C5_CoverageInUnitIntervalFromWidth ==
  (IsComposite /\ (args.kind = "line" => args.prim.w >= -PX)) =>
    \A p \in Canvas : 0 <= ret.cov[p] /\ ret.cov[p] <= ONE

\* a zero-length line wider than a pixel, with one pixel covered in full and
\* another in part
C5_Witness ==
  /\ call = "composite_line_bbox_cpp"
  /\ args.prim.x1 = args.prim.x2 /\ args.prim.y1 = args.prim.y2
  /\ args.prim.w > PX
  /\ \E p \in Canvas : ret.cov[p] = ONE
  /\ \E p \in Canvas : 0 < ret.cov[p] /\ ret.cov[p] < ONE

\* coverage of pixel p by the primitive of the call, by the rule of its kind
CoverageAt(p) ==
  IF args.kind = "dot"
  THEN dot_coverage(args.prim.x, args.prim.y, args.prim.radius, p[1], p[2])
  ELSE line_coverage(args.prim.x1, args.prim.y1, args.prim.x2, args.prim.y2,
                     args.prim.w, p[1], p[2])

InBox(p, b) == b.xmin <= p[1] /\ p[1] <= b.xmax /\ b.ymin <= p[2] /\ p[2] <= b.ymax

\* the radius of the dot, or the width of the line, of the call is not negative
SizeNotNegative ==
  IF args.kind = "dot" THEN args.prim.radius >= 0 ELSE args.prim.w >= 0

\* C6: for every dot and every line (radius, width >= 0), every pixel of the
\* canvas whose centre has nonzero coverage under the dot or line coverage
\* rule lies inside the box dot_bbox_cpp, respectively line_bbox_cpp with
\* pad 2, returns.
C6_BboxHoldsCoveredPixels ==
  (IsBbox /\ SizeNotNegative) =>
    \A p \in Canvas : CoverageAt(p) > 0 => InBox(p, ret)

\* a box smaller than the canvas that holds a covered pixel
C6_Witness ==
  /\ IsBbox
  /\ SizeNotNegative
  /\ \E p \in Canvas : CoverageAt(p) > 0
  /\ \E p \in Canvas : ~InBox(p, ret)

RawBox ==
  IF args.kind = "dot"
  THEN Rect(Floor(args.prim.x - args.prim.radius),
            Ceil(args.prim.x + args.prim.radius),
            Floor(args.prim.y - args.prim.radius),
            Ceil(args.prim.y + args.prim.radius))
  ELSE LET r == args.prim.w \div 2 + 2 * PX
       IN  Rect(Floor(Min(args.prim.x1, args.prim.x2) - r),
                Ceil(Max(args.prim.x1, args.prim.x2) + r),
                Floor(Min(args.prim.y1, args.prim.y2) - r),
                Ceil(Max(args.prim.y1, args.prim.y2) + r))

InitJitter ==
  /\ call = "none"
  /\ \E sz \in Sizes :
       \/ \E d \in ValidDots(sz[1], sz[2]) :
            \E rng \in [nx : NormDraws, ny : NormDraws, nr : NormDraws,
                        na : NormDraws, nc : NormTriples] :
              args = [kind |-> "dot", cw |-> sz[1], ch |-> sz[2],
                      prim |-> d, rng |-> rng]
       \/ \E l \in ValidLines(sz[1], sz[2]) :
            \E rng \in [nx1 : NormDraws, ny1 : NormDraws, nx2 : NormDraws,
                        ny2 : NormDraws, nw : NormDraws, na : NormDraws,
                        nc : NormTriples] :
              args = [kind |-> "line", cw |-> sz[1], ch |-> sz[2],
                      prim |-> l, rng |-> rng]
  /\ ret = NoRet

JitterDot ==
  /\ call = "none"
  /\ args.kind = "dot"
  /\ call' = "jitter_dot_cpp"
  /\ ret' = jitter_dot_cpp(args.prim, args.cw, args.ch, args.rng)
  /\ UNCHANGED args

JitterLine ==
  /\ call = "none"
  /\ args.kind = "line"
  /\ call' = "jitter_line_cpp"
  /\ ret' = jitter_line_cpp(args.prim, args.cw, args.ch, args.rng)
  /\ UNCHANGED args

NextJitter == JitterDot \/ JitterLine

SpecJitter == InitJitter /\ [][NextJitter]_vars

ColInUnit(col) == \A i \in 1 .. 3 : 0 <= col[i] /\ col[i] <= ONE
InRange(v, lo, hi) == lo <= v /\ v <= hi

\* C7: for a valid primitive, any W, H >= 1 and any normal draws,
\* jitter_dot_cpp returns x in [1,W], y in [1,H], radius >= 1, alpha in
\* [0.001,0.999] and colours in [0,1]; jitter_line_cpp returns x1, x2 in
\* [1,W], y1, y2 in [1,H], w >= 0.2, alpha in [0.001,0.999] and colours in
\* [0,1].
C7_JitterStaysInDomain ==
  /\ call = "jitter_dot_cpp" =>
       /\ InRange(ret.x, ONE, args.cw * ONE)
       /\ InRange(ret.y, ONE, args.ch * ONE)
       /\ ret.radius >= ONE
       /\ InRange(ret.alpha, 1, ONE - 1)
       /\ ColInUnit(ret.col)
  /\ call = "jitter_line_cpp" =>
       /\ InRange(ret.x1, ONE, args.cw * ONE)
       /\ InRange(ret.x2, ONE, args.cw * ONE)
       /\ InRange(ret.y1, ONE, args.ch * ONE)
       /\ InRange(ret.y2, ONE, args.ch * ONE)
       /\ ret.w >= ONE \div 5
       /\ InRange(ret.alpha, 1, ONE - 1)
       /\ ColInUnit(ret.col)

\* a line pushed out of its domain on every side: one end clamped to 1, the
\* other to W, the width to 0.2 and alpha to 0.001
C7_Witness ==
  /\ call = "jitter_line_cpp"
  /\ args.cw > 1
  /\ args.prim.x1 + args.rng.nx1 < ONE /\ ret.x1 = ONE
  /\ args.prim.x2 + args.rng.nx2 > args.cw * ONE /\ ret.x2 = args.cw * ONE
  /\ args.prim.w + args.rng.nw < 0 /\ ret.w = ONE \div 5
  /\ args.prim.alpha + args.rng.na < 0 /\ ret.alpha = 1

\* --------------------------------------------------------- samplers: calls
InitSample ==
  /\ call = "none"
  /\ \/ \E sz \in Sizes :
          \E rng \in [ux : UnifDraws, uy : UnifDraws, nr : NormDraws,
                      beta : BetaDraws, uc : UnifTriples] :
            args = [kind |-> "dot_prior", cw |-> sz[1], ch |-> sz[2], rng |-> rng]
     \/ \E sz \in Sizes :
          \E rng \in [ux : UnifDraws, uy : UnifDraws, dir : Dirs,
                      nlen : NormDraws, nw : NormDraws, beta : BetaDraws,
                      uc : UnifTriples] :
            args = [kind |-> "line_prior", cw |-> sz[1], ch |-> sz[2], rng |-> rng]
     \/ \E b \in BirthBuffers :
          \E rng \in [ux : IF HasResidual(b) THEN {500} ELSE UnifDraws,
                      uy : IF HasResidual(b) THEN {500} ELSE UnifDraws,
                      ur : IF HasResidual(b) THEN UnifDraws ELSE {500},
                      nr : {-9000, 300}, beta : BetaDraws, uc : UnifTriples,
                      ncol : {-2000, 3000}] :
            args = [kind |-> "dot_birth", target |-> b.target,
                    canvas |-> b.canvas, rng |-> rng]
     \/ \E b \in BirthBuffers :
          \E rng \in [ux : IF HasResidual(b) THEN {500} ELSE UnifDraws,
                      uy : IF HasResidual(b) THEN {500} ELSE UnifDraws,
                      ur : IF HasResidual(b) THEN UnifDraws ELSE {500},
                      dir : Dirs, nlen : {-9000, 300}, nw : {-9000, 300},
                      beta : BetaDraws] :
            args = [kind |-> "line_birth", target |-> b.target,
                    canvas |-> b.canvas, rng |-> rng]
  /\ ret = NoRet

SampleDotPrior ==
  /\ call = "none"
  /\ args.kind = "dot_prior"
  /\ call' = "sample_dot_prior_cpp"
  /\ ret' = sample_dot_prior_cpp(args.cw, args.ch, args.rng)
  /\ UNCHANGED args

SampleLinePrior ==
  /\ call = "none"
  /\ args.kind = "line_prior"
  /\ call' = "sample_line_prior_cpp"
  /\ ret' = sample_line_prior_cpp(args.cw, args.ch, args.rng)
  /\ UNCHANGED args

SampleDotBirthDatadriven ==
  /\ call = "none"
  /\ args.kind = "dot_birth"
  /\ call' = "sample_dot_birth_datadriven_cpp"
  /\ ret' = sample_dot_birth_datadriven_cpp(args.target, args.canvas, args.rng)
  /\ UNCHANGED args

SampleLineBirthDatadriven ==
  /\ call = "none"
  /\ args.kind = "line_birth"
  /\ call' = "sample_line_birth_datadriven_cpp"
  /\ ret' = sample_line_birth_datadriven_cpp(args.target, args.canvas, args.rng)
  /\ UNCHANGED args

NextSample ==
  \/ SampleDotPrior
  \/ SampleLinePrior
  \/ SampleDotBirthDatadriven
  \/ SampleLineBirthDatadriven

SpecSample == InitSample /\ [][NextSample]_vars

IsBirth == call \in {"sample_dot_birth_datadriven_cpp",
                     "sample_line_birth_datadriven_cpp"}

\* the pixels, by 0-based index, at which target and canvas differ
ResidualPixels ==
  {i \in PixelIdx : \E c \in Channels :
     args.target[i + c * H * W] # args.canvas[i + c * H * W]}

\* C8: when the birth samplers sample the seed by residual weight, the seed
\* is never a pixel with zero residual, for every value of the threshold
\* draw; when one pixel alone has a residual, it is the seed.
C8_SeedHasResidual ==
  (IsBirth /\ ret.idx # -1) =>
    /\ ret.idx \in ResidualPixels
    /\ \A i \in PixelIdx : ResidualPixels = {i} => ret.idx = i

\* one pixel alone has a residual, it is not the first of the list, and the
\* threshold drawn is the lowest one: the dot is born on that pixel
C8_Witness ==
  /\ call = "sample_dot_birth_datadriven_cpp"
  /\ args.rng.ur = 1
  /\ Cardinality(ResidualPixels) = 1
  /\ 0 \notin ResidualPixels
  /\ ret.idx \in ResidualPixels
  /\ ret.x = ((ret.idx \div H) + 1) * ONE
  /\ ret.y = ((ret.idx % H) + 1) * ONE

\* C9: every primitive the prior and the birth samplers return has its
\* positions in [1,W]x[1,H], radius or width >= 1, alpha in (0,1) and
\* colours in [0,1]; the dot birth sampler never returns the normal draw as
\* a colour.
C9_SamplersStayInDomain ==
  /\ call = "sample_dot_prior_cpp" =>
       /\ InRange(ret.x, ONE, args.cw * ONE)
       /\ InRange(ret.y, ONE, args.ch * ONE)
       /\ ret.radius >= ONE
       /\ 0 < ret.alpha /\ ret.alpha < ONE
       /\ ColInUnit(ret.col)
  /\ call = "sample_line_prior_cpp" =>
       /\ InRange(ret.x1, ONE, args.cw * ONE)
       /\ InRange(ret.x2, ONE, args.cw * ONE)
       /\ InRange(ret.y1, ONE, args.ch * ONE)
       /\ InRange(ret.y2, ONE, args.ch * ONE)
       /\ ret.w >= ONE
       /\ 0 < ret.alpha /\ ret.alpha < ONE
       /\ ColInUnit(ret.col)
  /\ call = "sample_dot_birth_datadriven_cpp" =>
       /\ InRange(ret.x, ONE, W * ONE)
       /\ InRange(ret.y, ONE, H * ONE)
       /\ ret.radius >= ONE
       /\ 0 < ret.alpha /\ ret.alpha < ONE
       /\ ColInUnit(ret.col)
       /\ ret.col[2] # args.rng.ncol
  /\ call = "sample_line_birth_datadriven_cpp" =>
       /\ InRange(ret.x1, ONE, W * ONE)
       /\ InRange(ret.x2, ONE, W * ONE)
       /\ InRange(ret.y1, ONE, H * ONE)
       /\ InRange(ret.y2, ONE, H * ONE)
       /\ ret.w >= ONE
       /\ 0 < ret.alpha /\ ret.alpha < ONE
       /\ ColInUnit(ret.col)

\* a dot born without residual at a uniformly drawn position near the far
\* corner: its first colour is a uniform draw, its second is read from
\* target, and the normal draw offered is outside [0,1]
C9_Witness ==
  /\ call = "sample_dot_birth_datadriven_cpp"
  /\ ret.idx = -1
  /\ args.rng.ux = 999 /\ args.rng.uy = 999
  /\ ret.x > ONE /\ ret.y > ONE
  /\ args.rng.ncol > ONE
  /\ ret.col[1] = runif(0, ONE, args.rng.uc[1])
  /\ ret.col[2] = args.target[idx3((ret.y \div ONE) - 1, (ret.x \div ONE) - 1,
                                   1, H, W)]

\* ---------------------------------------------------------- opacity: calls
\* alpha below, inside, at the ends of and above its valid domain
AlphaValues == {-500, 0, 500, ONE, 2 * ONE}

OpacityCols == {<<0, 0, 0>>, <<ONE, 500, 0>>}

\* dots and lines that cover pixels of the canvas in full and in part
OpacityDots ==
  {Dot(g[1], g[2], g[3], alpha, col) :
     g \in {<<6, 4, 8>>, <<2, 2, 3>>}, alpha \in AlphaValues, col \in OpacityCols}

OpacityLines ==
  {Line(g[1], g[2], g[3], g[4], g[5], alpha, col) :
     g \in {<<2, 4, 10, 4, 8>>, <<2, 2, 10, 6, 2>>}, alpha \in AlphaValues,
     col \in OpacityCols}

\* canvases with every sample in [0,1]
UnitCanvases == {White, Black, Grad}

InitOpacity ==
  /\ call = "none"
  /\ \E cv \in UnitCanvases : \E r \in RectsInside :
       \/ \E d \in OpacityDots : \E n \in 1 .. 2 :
            args = [kind |-> "dot", canvas |-> cv, bbox |-> r,
                    prims |-> [k \in 1 .. n |-> d]]
       \/ \E l \in OpacityLines : \E n \in 1 .. 2 :
            args = [kind |-> "line", canvas |-> cv, bbox |-> r,
                    prims |-> [k \in 1 .. n |-> l]]
  /\ ret = NoRet

PaintCompositeDot ==
  /\ call = "none"
  /\ args.kind = "dot"
  /\ call' = "composite_dot_bbox_cpp"
  /\ ret' = composite_dot_bbox_cpp(args.canvas, args.prims[1], args.bbox.xmin,
              args.bbox.xmax, args.bbox.ymin, args.bbox.ymax)
  /\ UNCHANGED args

PaintReRenderDots ==
  /\ call = "none"
  /\ args.kind = "dot"
  /\ call' = "re_render_bbox_from_dots_cpp"
  /\ ret' = re_render_bbox_from_dots_cpp(args.canvas, args.prims, args.bbox.xmin,
              args.bbox.xmax, args.bbox.ymin, args.bbox.ymax)
  /\ UNCHANGED args

PaintFullDots ==
  /\ call = "none"
  /\ args.kind = "dot"
  /\ call' = "render_full_canvas_from_dots_cpp"
  /\ ret' = render_full_canvas_from_dots_cpp(args.canvas, args.prims)
  /\ UNCHANGED args

PaintCompositeLine ==
  /\ call = "none"
  /\ args.kind = "line"
  /\ call' = "composite_line_bbox_cpp"
  /\ ret' = composite_line_bbox_cpp(args.canvas, args.prims[1], args.bbox.xmin,
              args.bbox.xmax, args.bbox.ymin, args.bbox.ymax)
  /\ UNCHANGED args

PaintReRenderLines ==
  /\ call = "none"
  /\ args.kind = "line"
  /\ call' = "re_render_bbox_from_lines_cpp"
  /\ ret' = re_render_bbox_from_lines_cpp(args.canvas, args.prims,
              args.bbox.xmin, args.bbox.xmax, args.bbox.ymin, args.bbox.ymax)
  /\ UNCHANGED args

PaintFullLines ==
  /\ call = "none"
  /\ args.kind = "line"
  /\ call' = "render_full_canvas_cpp"
  /\ ret' = render_full_canvas_cpp(args.prims)
  /\ UNCHANGED args

NextOpacity ==
  \/ PaintCompositeDot
  \/ PaintReRenderDots
  \/ PaintFullDots
  \/ PaintCompositeLine
  \/ PaintReRenderLines
  \/ PaintFullLines

SpecOpacity == InitOpacity /\ [][NextOpacity]_vars

\* C11: in every compositing path, for every alpha, a canvas whose samples
\* are in [0,1], painted with colours in [0,1], has its samples in [0,1]
\* afterwards.
C11_SamplesStayInUnitInterval ==
  call # "none" => \A i \in Indices : 0 <= ret[i] /\ ret[i] <= ONE

\* -------------------------------------------------------- sse: additivity
\* calls with target and canvas different in up to MaxDiffs pixels, in one,
\* two or three channels of each
InitSseSplit ==
  /\ call = "none"
  /\ \E P \in SubsetsUpTo(0 .. (H * W - 1), MaxDiffs) : \E r \in RectsInside :
       args = [target |-> Moved(Grad, ResidualAt(P)), canvas |-> Grad,
               bbox |-> r]
  /\ ret = NoRet

SpecSseSplit == InitSseSplit /\ [][NextSse]_vars

\* the result of the function of the call over the rectangle given
SseOver(xmin, xmax, ymin, ymax) ==
  IF call = "sse_bbox_dots_cpp"
  THEN sse_bbox_dots_cpp(args.target, args.canvas, xmin, xmax, ymin, ymax).sse
  ELSE sse_bbox_cpp(args.target, args.canvas, xmin, xmax, ymin, ymax, 0, 0).sse

\* C12: for sse_bbox_dots_cpp and sse_bbox_cpp and a rectangle inside the
\* canvas, split along a column or along a row into two rectangles, the
\* result over the whole equals the sum of the results over the two parts.
\* (Sums are exact here; the code adds doubles, whose sum depends on the
\* order of the terms in the last bits.)
C12_SseAdditive ==
  IsSseCall =>
    LET b == args.bbox
    IN  /\ \A k \in b.xmin .. (b.xmax - 1) :
             ret.sse = SseOver(b.xmin, k, b.ymin, b.ymax)
                         + SseOver(k + 1, b.xmax, b.ymin, b.ymax)
        /\ \A k \in b.ymin .. (b.ymax - 1) :
             ret.sse = SseOver(b.xmin, b.xmax, b.ymin, k)
                         + SseOver(b.xmin, b.xmax, k + 1, b.ymax)

\* sse_bbox_cpp over a rectangle of two columns or more, split so that each
\* part has a positive result
C12_Witness ==
  /\ call = "sse_bbox_cpp"
  /\ \E k \in args.bbox.xmin .. (args.bbox.xmax - 1) :
       /\ SseOver(args.bbox.xmin, k, args.bbox.ymin, args.bbox.ymax) > 0
       /\ SseOver(k + 1, args.bbox.xmax, args.bbox.ymin, args.bbox.ymax) > 0
       /\ ret.sse = SseOver(args.bbox.xmin, k, args.bbox.ymin, args.bbox.ymax)
                      + SseOver(k + 1, args.bbox.xmax, args.bbox.ymin,
                                args.bbox.ymax)

\* --------------------------------------------------- dot coverage: the ramp
\* the coverage C13 states for pixel p under the dot of the call, in
\* thousandths: 1 up to radius-1 from the centre, 0 beyond radius, and
\* radius - d in between
StatedDotCoverage(p) ==
  LET dx == Centre(p[1]) - args.prim.x
      dy == Centre(p[2]) - args.prim.y
      d2 == dx * dx + dy * dy
      radius == args.prim.radius
  IN  IF d2 > radius * radius THEN 0
      ELSE IF d2 <= (radius - PX) * (radius - PX) THEN ONE
      ELSE Milli(radius) - Isqrt(Ratio2(d2, PX * PX))

\* C13: for a dot of radius 1 or more, the coverage the dot loops compute at
\* a pixel is 1 for d <= radius-1, 0 for d > radius and radius - d in the
\* band between (to two thousandths, the rounding of the square roots).
C13_DotCoverageRamp ==
  (call = "composite_dot_bbox_cpp" /\ args.prim.radius >= PX) =>
    \A p \in Canvas :
      /\ ret.cov[p] - StatedDotCoverage(p) <= 2
      /\ StatedDotCoverage(p) - ret.cov[p] <= 2

\* ------------------------------------------------- dot birth: seed colour
\* C14: a dot born on a seed pixel sampled by residual weight has its centre
\* on the seed (x0, y0) and, in each channel, the colour of target at row y0
\* and column x0, row 1 and column 1 included.
C14_BirthColourIsTargetAtSeed ==
  (call = "sample_dot_birth_datadriven_cpp" /\ ret.idx # -1) =>
    LET x0 == (ret.idx \div H) + 1
        y0 == (ret.idx % H) + 1
    IN  /\ ret.x = x0 * ONE
        /\ ret.y = y0 * ONE
        /\ \A c \in Channels :
             ret.col[c + 1] = args.target[idx3(y0, x0, c, H, W)]

\* ------------------------------------------- re-render: outside the bbox
IsReRender == call \in {"re_render_bbox_from_dots_cpp",
                        "re_render_bbox_from_lines_cpp"}

\* C15: the canvas re_render_bbox_from_dots_cpp and
\* re_render_bbox_from_lines_cpp return has, at every sample of every pixel
\* outside the rectangle R, the value of the base canvas.
C15_OutsideBboxUnchanged ==
  IsReRender =>
    \A p \in Canvas \ PixelsOf(args.bbox) : \A c \in Channels :
      ret[idx3(p[2], p[1], c, H, W)] = args.canvas[idx3(p[2], p[1], c, H, W)]

\* -------------------------------------- lines: one composite call per line
\* the lines of LineSet and others across the canvas
ComposeLines ==
  LineSet \cup
  { Line(2, 2, 10, 2, 4, 600, <<0, 0, ONE>>),
    Line(6, 0, 6, 8, 6, ONE, <<0, 0, 0>>),
    Line(10, 6, 2, 2, 2, 900, <<ONE, ONE, 0>>),
    Line(10, 6, 10, 6, 8, 400, <<0, ONE, ONE>>) }

\* composite_line_bbox_cpp called for the lines i, i+1, ... of the list in
\* turn, each with the box line_bbox_cpp returns for it with pad 2
RECURSIVE CompositeEachLine(_, _, _)
CompositeEachLine(canvas, lines, i) ==
  IF i > Len(lines) THEN canvas
  ELSE LET l == lines[i]
           b == line_bbox_cpp(l.x1, l.y1, l.x2, l.y2, l.w, W, H, 2)
       IN  CompositeEachLine(
             composite_line_bbox_cpp(canvas, l, b.xmin, b.xmax, b.ymin, b.ymax),
             lines, i + 1)

InitCompose ==
  /\ call = "none"
  /\ args \in [lines : SeqsUpTo(ComposeLines, MaxPrims)]
  /\ ret = NoRet

CompositeLineBboxEach ==
  /\ call = "none"
  /\ call' = "composite_line_bbox_cpp"
  /\ ret' = CompositeEachLine(White, args.lines, 1)
  /\ UNCHANGED args

RenderFullCanvasOfLines ==
  /\ call = "none"
  /\ call' = "render_full_canvas_cpp"
  /\ ret' = render_full_canvas_cpp(args.lines)
  /\ UNCHANGED args

NextCompose == CompositeLineBboxEach \/ RenderFullCanvasOfLines

SpecCompose == InitCompose /\ [][NextCompose]_vars

\* C16: composite_line_bbox_cpp applied to a white canvas once per line, in
\* list order, each time with the line's box from line_bbox_cpp, gives the
\* canvas render_full_canvas_cpp gives for the list, at every sample.
C16_CompositeEqualsFullRender ==
  call = "composite_line_bbox_cpp" => ret = render_full_canvas_cpp(args.lines)

====
